---- MODULE Spec2Model ----
(***************************************************************************)
(* MovementAnalysis (src/head_movement_analysis.py): the frame loop of     *)
(* head_and_eyes_analysis, the per-frame classification of get_eyes_data,  *)
(* the session aggregation with its quality flags, gesture_score and       *)
(* feedback.                                                               *)
(*                                                                         *)
(* Numbers: brightness values are integers; the head ratios are scaled by  *)
(* 100 (0.71 is 71); the focal length and the distance are Python floats,  *)
(* computed with their rounding; "count > total * 0.50" is                 *)
(* 2 * count > total.                                                      *)
(* A Python list that holds strings is a sequence of strings; the value     *)
(* None of frame_light is the empty tuple and a number v is <<v>>.          *)
(***************************************************************************)
EXTENDS Integers, Sequences, FiniteSets, TLC

VARIABLES
    video,          \* what cap.read() yields, call after call (the input)
    length,         \* int(cap.get(CAP_PROP_FRAME_COUNT))
    itechnolabs_id, \* the subject the report is saved for
    pos,            \* number of frames cap.read() has returned
    frame,          \* the frame of the current iteration, NoFrame before the first
    frame_light,    \* frame.mean() of the current frame, <<>> for None
    count,          \* the frame index
    head, eyes, errors, gestures,   \* the four result lists
    ret,            \* what get_eyes_data did on the current frame, NoRet before
    flag, dt,       \* the pair the analysis returns
    statement1, statement2,
    FeedbackTable,  \* the Feedback rows
    pc,             \* position in head_and_eyes_analysis
    exc,            \* the exception that left head_and_eyes_analysis, "" if none
    call,           \* the last direct call of gesture_score or feedback
    result,         \* what that call returned, NoResult before it returns
    trackers,       \* the frame each module-level tracker last refreshed on
    sessions        \* the analyses that run at the same time, by thread

vars == <<video, length, itechnolabs_id, pos, frame, frame_light, count, head,
          eyes, errors, gestures, ret, flag, dt, statement1, statement2,
          FeedbackTable, pc, exc, call, result, trackers, sessions>>

-----------------------------------------------------------------------------
(* Bounds of the model *)
MaxFrames == 2
MaxLength == 3
RatioMargin == 3
LongFrames == 102
MaxHeadOnly == 6
MaxHeadEye == 4

(* Program constants *)
known_distance == 43
known_width_tenths == 123
mindistance_selfie == 20
mindistance_fullbody == 69
maxdistance_fullbody == 140
LowLightMax == 65
EyesLightMin == 97
HorizontalMin == 71
HorizontalMax == 145
VerticalMin == 133
VerticalMax == 210
default_id == 67
ratioX_pct == 95
ratioY_pct == 5

LowLightFound == "Low Light Found"
TooFar == "You Are Too Far"
NoFaceFound == "No Face Found"

EmptyDict == [k \in {} |-> 0]
NoFrame == [read |-> "none"]
NoRet == [raised |-> "not called"]
NoCall == [fn |-> "none"]
NoResult == [returned |-> FALSE]
\* a tracker keeps the frame of its last refresh; by is the thread that called
NoTracker ==
    [headTracking |-> [by |-> 0, frame |-> NoFrame],
     headTrackingSelfie |-> [by |-> 0, frame |-> NoFrame]]

-----------------------------------------------------------------------------
(* Python floats. The widths are whole numbers, known_width is the float    *)
(* 12.3, and lines 79 and 92 are float operations: each rounds its exact    *)
(* result to the nearest double, ties to the even mantissa. A natural       *)
(* number beyond the machine range is kept as its limbs to the base 2^15,  *)
(* lowest first, without leading zero limbs; a double is [m, e] for         *)
(* m * 2^e with 2^52 <= m < 2^53.                                           *)
Limb == 32768
LimbBits == 15
MantissaBits == 53

RECURSIVE BigFromInt(_)
BigFromInt(n) == IF n = 0 THEN <<>> ELSE <<n % Limb>> \o BigFromInt(n \div Limb)

RECURSIVE Trim(_)
Trim(a) ==
    IF a # <<>> /\ a[Len(a)] = 0 THEN Trim(SubSeq(a, 1, Len(a) - 1)) ELSE a

Low(a) == IF a = <<>> THEN 0 ELSE a[1]
High(a) == IF a = <<>> THEN <<>> ELSE Tail(a)

RECURSIVE BigAddCarry(_, _, _)
BigAddCarry(a, b, carry) ==
    IF a = <<>> /\ b = <<>> THEN BigFromInt(carry)
    ELSE LET x == Low(a) + Low(b) + carry
         IN  <<x % Limb>> \o BigAddCarry(High(a), High(b), x \div Limb)

BigAdd(a, b) == BigAddCarry(a, b, 0)

\* a - b - borrow for a >= b + borrow
RECURSIVE BigSubBorrow(_, _, _)
BigSubBorrow(a, b, borrow) ==
    IF a = <<>> THEN <<>>
    ELSE LET x == Low(a) - Low(b) - borrow
         IN  <<x % Limb>> \o BigSubBorrow(High(a), High(b), IF x < 0 THEN 1 ELSE 0)

BigSub(a, b) == Trim(BigSubBorrow(a, b, 0))

\* -1, 0, 1 as a is below, equal to, above b
RECURSIVE BigCmpFrom(_, _, _)
BigCmpFrom(a, b, i) ==
    IF i = 0 THEN 0
    ELSE IF a[i] < b[i] THEN -1
    ELSE IF a[i] > b[i] THEN 1
    ELSE BigCmpFrom(a, b, i - 1)

BigCmp(a, b) ==
    IF Len(a) < Len(b) THEN -1
    ELSE IF Len(a) > Len(b) THEN 1
    ELSE BigCmpFrom(a, b, Len(a))

RECURSIVE BigMulLimb(_, _, _)
BigMulLimb(a, k, carry) ==
    IF a = <<>> THEN BigFromInt(carry)
    ELSE LET x == a[1] * k + carry
         IN  <<x % Limb>> \o BigMulLimb(Tail(a), k, x \div Limb)

RECURSIVE BigMul(_, _)
BigMul(a, b) ==
    IF a = <<>> \/ b = <<>> THEN <<>>
    ELSE BigAdd(Trim(BigMulLimb(a, b[1], 0)), Trim(<<0>> \o BigMul(a, Tail(b))))

BigPow2(k) ==
    [i \in 1..(k \div LimbBits + 1) |->
        IF i = k \div LimbBits + 1 THEN 2 ^ (k % LimbBits) ELSE 0]

RECURSIVE SmallBitLen(_)
SmallBitLen(n) == IF n = 0 THEN 0 ELSE 1 + SmallBitLen(n \div 2)

BitLen(a) ==
    IF a = <<>> THEN 0 ELSE LimbBits * (Len(a) - 1) + SmallBitLen(a[Len(a)])

\* quotient and remainder of a by a limb k > 0, from the highest limb down
RECURSIVE BigDivLimb(_, _)
BigDivLimb(a, k) ==
    IF a = <<>> THEN [q |-> <<>>, r |-> 0]
    ELSE LET h == BigDivLimb(Tail(a), k)
             x == h.r * Limb + a[1]
         IN  [q |-> Trim(<<x \div k>> \o h.q), r |-> x % k]

\* quotient and remainder of a by 2^s
BigSplit(a, s) ==
    LET q == IF Len(a) <= s \div LimbBits THEN <<>>
             ELSE BigDivLimb(SubSeq(a, s \div LimbBits + 1, Len(a)),
                             2 ^ (s % LimbBits)).q
    IN  [q |-> q, r |-> BigSub(a, BigMul(q, BigPow2(s)))]

BigToInt(a) == Low(a) + Limb * Low(High(a))

\* q and r raised until r < d
RECURSIVE BigCorrect(_, _, _)
BigCorrect(q, r, d) ==
    IF BigCmp(r, d) < 0 THEN [q |-> q, r |-> r]
    ELSE BigCorrect(q + 1, BigSub(r, d), d)

\* quotient, a limb, and remainder of a by d for a < d * Limb: the quotient
\* of the leading bits, which is never too large, is raised to fit
BigDivStep(a, d) ==
    IF BitLen(d) <= LimbBits
    THEN [q |-> BigToInt(a) \div BigToInt(d),
          r |-> BigFromInt(BigToInt(a) % BigToInt(d))]
    ELSE LET s == BitLen(d) - LimbBits
             q == BigToInt(BigSplit(a, s).q) \div (BigToInt(BigSplit(d, s).q) + 1)
         IN  BigCorrect(q, BigSub(a, BigMulLimb(d, q, 0)), d)

\* quotient and remainder of a * Limb^n by d for a < d * Limb, one limb of
\* the quotient at a time
RECURSIVE BigLongDiv(_, _, _)
BigLongDiv(a, d, n) ==
    IF n = 0
    THEN LET t == BigDivStep(a, d) IN [q |-> BigFromInt(t.q), r |-> t.r]
    ELSE LET h == BigLongDiv(a, d, n - 1)
             t == BigDivStep(Trim(<<0>> \o h.r), d)
         IN  [q |-> Trim(<<t.q>> \o h.q), r |-> t.r]

\* the limbs a double division computes before it rounds
QuotientLimbs == 4

Zero == [m |-> <<>>, e |-> 0]

\* the double nearest to p * 2^e, ties to even; sticky says that
\* the exact value lies above p * 2^e by less than 2^e
RoundToDouble(p, e, sticky) ==
    LET n == BitLen(p)
    IN  IF n = 0 THEN Zero
        ELSE IF n <= MantissaBits
        THEN [m |-> BigMul(p, BigPow2(MantissaBits - n)), e |-> e - (MantissaBits - n)]
        ELSE LET s == n - MantissaBits
                 h == BigSplit(p, s)
                 c == BigCmp(h.r, BigPow2(s - 1))
                 up == c > 0 \/ (c = 0 /\ (sticky \/ Low(h.q) % 2 = 1))
                 q == IF up THEN BigAddCarry(h.q, <<>>, 1) ELSE h.q
             IN  IF BitLen(q) > MantissaBits
                 THEN [m |-> BigPow2(MantissaBits - 1), e |-> e + s + 1]
                 ELSE [m |-> q, e |-> e + s]

float(n) == RoundToDouble(BigFromInt(n), 0, FALSE)

float_mul(x, y) ==
    IF x = Zero \/ y = Zero THEN Zero
    ELSE RoundToDouble(BigMul(x.m, y.m), x.e + y.e, FALSE)

\* x / y for y other than 0.0
float_div(x, y) ==
    IF x = Zero THEN Zero
    ELSE LET h == BigLongDiv(x.m, y.m, QuotientLimbs)
         IN  RoundToDouble(h.q, x.e - y.e - QuotientLimbs * LimbBits, h.r # <<>>)

\* -1, 0, 1 as x is below, equal to, above y
float_cmp(x, y) ==
    IF x = Zero \/ y = Zero
    THEN IF x = y THEN 0 ELSE IF x = Zero THEN -1 ELSE 1
    ELSE IF x.e < y.e THEN -1
    ELSE IF x.e > y.e THEN 1
    ELSE BigCmp(x.m, y.m)

\* -1, 0, 1 as x is below, equal to, above the fraction num / den
float_cmp_ratio(x, num, den) ==
    LET low == IF x.e < 0 THEN x.e ELSE 0
    IN  BigCmp(BigMul(BigMul(x.m, BigFromInt(den)), BigPow2(x.e - low)),
               BigMul(BigFromInt(num), BigPow2(0 - low)))

\* the literal 12.3
known_width == float_div(float(known_width_tenths), float(10))

\* line 79: (width_in_rf_image * measured_distance) / real_width
focal_length(measured_distance, real_width, width_in_rf_image) ==
    float_div(float(width_in_rf_image * measured_distance), real_width)

\* line 92: (real_face_width * focal_length) / face_width_in_frame, called
\* with face_width_in_frame other than 0 only
distance_finder(focal, real_face_width, face_width_in_frame) ==
    float_div(float_mul(real_face_width, focal), float(face_width_in_frame))

\* the widths face_data returns in the frames of this model, and the
\* distances lines 153-158 estimate from them, computed once
RefWidths == {19, 20, 68, 69, 140, 141}
FaceWidths == {0, 43}
Measured ==
    [wr \in RefWidths |->
        [w \in FaceWidths \ {0} |->
            distance_finder(focal_length(known_distance, known_width, wr),
                            known_width, w)]]

\* comparisons of a float with a whole number
Below(x, n) == float_cmp(x, float(n)) < 0
Above(x, n) == float_cmp(x, float(n)) > 0

-----------------------------------------------------------------------------
(* head_movements, lines 94-117 *)
\* head_movements with the lower horizontal bound exclusive
head_movements_strict(vertical_ratio, horizontal_ratio) ==
    IF horizontal_ratio > HorizontalMin /\ horizontal_ratio <= HorizontalMax
    THEN IF vertical_ratio >= VerticalMin /\ vertical_ratio <= VerticalMax
         THEN "Center"
         ELSE IF vertical_ratio < VerticalMin THEN "Upper"
         ELSE IF vertical_ratio > VerticalMax THEN "Down"
         ELSE ""
    ELSE IF horizontal_ratio < HorizontalMin THEN "Left"
    ELSE IF horizontal_ratio > HorizontalMax THEN "Right"
    ELSE ""

\* head_movements
head_movements(vertical_ratio, horizontal_ratio) ==
    IF horizontal_ratio >= HorizontalMin /\ horizontal_ratio <= HorizontalMax
    THEN IF vertical_ratio >= VerticalMin /\ vertical_ratio <= VerticalMax
         THEN "Center"
         ELSE IF vertical_ratio < VerticalMin THEN "Upper"
         ELSE IF vertical_ratio > VerticalMax THEN "Down"
         ELSE ""
    ELSE IF horizontal_ratio < HorizontalMin THEN "Left"
    ELSE IF horizontal_ratio > HorizontalMax THEN "Right"
    ELSE ""

-----------------------------------------------------------------------------
(* get_eyes_data.  A result is a record: raised ("" when the call returns), *)
(* the four returned texts, and calls, the collaborator methods invoked.    *)
Result(raised, low, eyes_text, head_text, far, calls) ==
    [raised |-> raised, low_light_text |-> low, text_eyes_movements |-> eyes_text,
     text_head_analysis |-> head_text, text_yourfar |-> far, calls |-> calls]

\* lines 167-172 with is_center asked first
eyes_movements_center_first(f) ==
    IF f.is_center THEN "Center"
    ELSE IF f.is_right THEN "Right"
    ELSE IF f.is_left THEN "Left"
    ELSE ""

\* lines 167-172 and 181-186: the first true of is_right, is_left, is_center
eyes_movements(f) ==
    IF f.is_right THEN "Right"
    ELSE IF f.is_left THEN "Left"
    ELSE IF f.is_center THEN "Center"
    ELSE ""

\* lines 161-172 and 175-186: refresh, head_movements and the gaze queries of
\* one tracker, from the state st of the call so far
gaze_block(tracker, f, valuePix, st) ==
    IF f.refresh = "IndexError"
    THEN [st EXCEPT !.raised = "IndexError", !.calls = @ \cup {<<tracker, "refresh">>}]
    ELSE IF valuePix = <<>>
    THEN [st EXCEPT !.raised = "TypeError",
                    !.text_head_analysis =
                        head_movements(f.vertical_ratio, f.horizontal_ratio),
                    !.calls = @ \cup {<<tracker, "refresh">>}]
    ELSE IF valuePix[1] > EyesLightMin
    THEN [st EXCEPT !.text_head_analysis =
                        head_movements(f.vertical_ratio, f.horizontal_ratio),
                    !.text_eyes_movements =
                        IF eyes_movements(f) # "" THEN eyes_movements(f) ELSE @,
                    !.calls = @ \cup {<<tracker, "refresh">>, <<tracker, "is_right">>}]
    ELSE [st EXCEPT !.text_head_analysis =
                        head_movements(f.vertical_ratio, f.horizontal_ratio),
                    !.calls = @ \cup {<<tracker, "refresh">>}]

\* line 160 with the upper bound inclusive
selfie_regime_inclusive(distance) ==
    /\ Above(distance, mindistance_selfie)
    /\ ~Above(distance, mindistance_fullbody)

\* line 160
selfie_regime(distance) ==
    /\ Above(distance, mindistance_selfie)
    /\ Below(distance, mindistance_fullbody)

\* line 174
fullbody_regime(distance) ==
    /\ ~Below(distance, mindistance_fullbody)
    /\ ~Above(distance, maxdistance_fullbody)

\* line 189
too_far(distance) == Above(distance, maxdistance_fullbody)

\* line 150
low_light(face_values) == face_values <= LowLightMax

\* lines 160-191 once line 158 has assigned distance
regime_blocks(f, valuePix, s0, distance) ==
    LET s1 == IF selfie_regime(distance)
              THEN gaze_block("headTrackingSelfie", f, valuePix, s0)
              ELSE s0
        s2 == IF s1.raised = "" /\ fullbody_regime(distance)
              THEN gaze_block("headTracking", f, valuePix, s1)
              ELSE s1
    IN  IF s2.raised = "" /\ too_far(distance)
        THEN [s2 EXCEPT !.text_yourfar = TooFar]
        ELSE s2

get_eyes_data(f, valuePix) ==
    IF f.face = "IndexError"
    THEN Result("IndexError", "", "", "", "", {<<"headTracking", "face_data">>})
    ELSE
    LET s0 == Result("", IF low_light(f.face_values) THEN LowLightFound ELSE "",
                     "", "", "", {<<"headTracking", "face_data">>})
    IN  IF f.face_width = 0
        \* line 189 reads distance, which line 158 never assigned
        THEN [s0 EXCEPT !.raised = "UnboundLocalError"]
        \* line 158, as Measured holds it
        ELSE regime_blocks(f, valuePix,
                           [s0 EXCEPT !.calls = @ \cup {<<"local", "distance_finder">>}],
                           Measured[f.face_width_img][f.face_width])

-----------------------------------------------------------------------------
(* Lists *)
RECURSIVE Count(_, _)
Count(list, x) ==
    IF list = <<>> THEN 0
    ELSE (IF Head(list) = x THEN 1 ELSE 0) + Count(Tail(list), x)

\* round(length / 2) rounding a half up
round_half_up(n) == (n + 1) \div 2

\* round(length / 2) of Python 3: a half goes to the even neighbour
round_half(n) ==
    IF n % 2 = 0 THEN n \div 2
    ELSE IF ((n - 1) \div 2) % 2 = 0 THEN (n - 1) \div 2 ELSE (n + 1) \div 2

\* int(round(n * ratio, 1)) for ratio = pct / 100: rounding to one decimal
\* and truncating.  The value is the integer part of n * pct / 100 unless the
\* product ends in .95 and rounds to the next integer.  In double arithmetic,
\* for every n <= 80, n * 0.95 ending in .95 rounds down (0.95 to 0.9, 19.95
\* to 19.9) and n * 0.05 ending in .95 rounds up (19 * 0.05 to 1.0).
weighted_part(n, pct) ==
    IF (n * pct) % 100 = 95 /\ pct = ratioY_pct
    THEN (n * pct) \div 100 + 1
    ELSE (n * pct) \div 100

-----------------------------------------------------------------------------
(* gesture_score *)
NoGestures == "We didn't see any gestures."
GoodEffort == "Good effort!"
Awesome == "Awesome, that was magnificent!"
Phew == "Phew!"
Ouch == "Ouch!"

SmallSample == 750
LargeSample == 1250

bars_small_inclusive(n_samples) ==
    IF n_samples <= SmallSample THEN <<0, 100, 200, 300>>
    ELSE IF n_samples <= LargeSample
         THEN <<0, 200, 400, 600>>
         ELSE <<0, 400, 800, 1600>>

bars(n_samples) ==
    IF n_samples < SmallSample THEN <<0, 100, 200, 300>>
    ELSE IF SmallSample <= n_samples /\ n_samples <= LargeSample
         THEN <<0, 200, 400, 600>>
         ELSE <<0, 400, 800, 1600>>

gesture_score_from_bar3(score, n_samples) ==
    LET bar == bars(n_samples)
    IN  IF score = 0 THEN NoGestures
        ELSE IF 1 <= score /\ score <= bar[3] THEN GoodEffort
        ELSE IF bar[3] + 1 <= score /\ score <= bar[4] THEN Phew
        ELSE Ouch

gesture_score(score, n_samples) ==
    LET bar == bars(n_samples)
    IN  IF score = 0 THEN NoGestures
        ELSE IF 1 <= score /\ score <= bar[2] THEN GoodEffort
        ELSE IF bar[2] + 1 <= score /\ score <= bar[3] THEN Awesome
        ELSE IF bar[3] + 1 <= score /\ score <= bar[4] THEN Phew
        ELSE Ouch

-----------------------------------------------------------------------------
(* The aggregation, lines 247-309 *)
RECURSIVE first_half(_, _)
first_half(gs, half_length) ==
    IF gs = <<>> THEN 0
    ELSE (IF Head(gs) <= half_length THEN 1 ELSE 0)
         + first_half(Tail(gs), half_length)

\* line 260 with the index length itself in the second half
RECURSIVE second_half_inclusive(_, _, _)
second_half_inclusive(gs, half_length, len) ==
    IF gs = <<>> THEN 0
    ELSE (IF half_length < Head(gs) /\ Head(gs) <= len THEN 1 ELSE 0)
         + second_half_inclusive(Tail(gs), half_length, len)

RECURSIVE second_half(_, _, _)
second_half(gs, half_length, len) ==
    IF gs = <<>> THEN 0
    ELSE (IF half_length < Head(gs) /\ Head(gs) < len THEN 1 ELSE 0)
         + second_half(Tail(gs), half_length, len)

\* results.count(x): the gesture entries of results are integers, never x
results_count(h, e, err, x) == Count(h, x) + Count(e, x) + Count(err, x)

\* lines 272-277 with >= for >
exceeds_or_equal(n, total) == 2 * n >= total

\* lines 272-277
exceeds(n, total) == 2 * n > total

quality_flag(low_lightfound, your_toofar, no_facefound, total) ==
    LET f1 == IF exceeds(low_lightfound, total) THEN 1 ELSE 0
        f2 == IF exceeds(your_toofar, total) THEN 2 ELSE f1
    IN  IF exceeds(no_facefound, total) THEN 3 ELSE f2

\* lines 281-309
report(h, e, gs, count_1, count_2) ==
    [center |-> weighted_part(Count(h, "Center"), ratioX_pct)
                + weighted_part(Count(e, "Center"), ratioY_pct),
     up |-> Count(h, "Upper"),
     down |-> Count(h, "Down"),
     left |-> weighted_part(Count(h, "Left"), ratioX_pct)
              + weighted_part(Count(e, "Left"), ratioY_pct),
     right |-> weighted_part(Count(h, "Right"), ratioX_pct)
               + weighted_part(Count(e, "Right"), ratioY_pct),
     total_gesture |-> Len(gs),
     first_gesture |-> count_1,
     second_gesture |-> count_2]

\* the aggregation that builds the report whatever the flag
aggregate_always_reports(h, e, err, gs, len) ==
    LET total == Len(h) + Len(e) + Len(gs) + Len(err)
        half_length == round_half(len)
        count_1 == first_half(gs, half_length)
        count_2 == second_half(gs, half_length, len)
        fl == quality_flag(results_count(h, e, err, LowLightFound),
                           results_count(h, e, err, TooFar),
                           results_count(h, e, err, NoFaceFound), total)
    IN  [flag |-> fl,
         dt |-> report(h, e, gs, count_1, count_2),
         statement1 |-> gesture_score(count_1, half_length),
         statement2 |-> gesture_score(count_2, len - half_length)]

\* the aggregation with total = len(errors)
aggregate_total_of_errors(h, e, err, gs, len) ==
    LET total == Len(err)
        half_length == round_half(len)
        count_1 == first_half(gs, half_length)
        count_2 == second_half(gs, half_length, len)
        fl == quality_flag(results_count(h, e, err, LowLightFound),
                           results_count(h, e, err, TooFar),
                           results_count(h, e, err, NoFaceFound), total)
    IN  [flag |-> fl,
         dt |-> IF fl \notin {1, 2, 3} THEN report(h, e, gs, count_1, count_2)
                ELSE EmptyDict,
         statement1 |-> gesture_score(count_1, half_length),
         statement2 |-> gesture_score(count_2, len - half_length)]

\* the aggregation that returns {} when nothing was recorded
aggregate_empty_guard(h, e, err, gs, len) ==
    LET total == Len(h) + Len(e) + Len(gs) + Len(err)
        half_length == round_half(len)
        count_1 == first_half(gs, half_length)
        count_2 == second_half(gs, half_length, len)
        fl == quality_flag(results_count(h, e, err, LowLightFound),
                           results_count(h, e, err, TooFar),
                           results_count(h, e, err, NoFaceFound), total)
    IN  [flag |-> fl,
         dt |-> IF fl \notin {1, 2, 3} /\ total # 0
                THEN report(h, e, gs, count_1, count_2)
                ELSE EmptyDict,
         statement1 |-> gesture_score(count_1, half_length),
         statement2 |-> gesture_score(count_2, len - half_length)]

\* the aggregation with the quality flags left out of total
aggregate_total_without_errors(h, e, err, gs, len) ==
    LET total == Len(h) + Len(e) + Len(gs)
        half_length == round_half(len)
        count_1 == first_half(gs, half_length)
        count_2 == second_half(gs, half_length, len)
        fl == quality_flag(results_count(h, e, err, LowLightFound),
                           results_count(h, e, err, TooFar),
                           results_count(h, e, err, NoFaceFound), total)
    IN  [flag |-> fl,
         dt |-> IF fl \notin {1, 2, 3} THEN report(h, e, gs, count_1, count_2)
                ELSE EmptyDict,
         statement1 |-> gesture_score(count_1, half_length),
         statement2 |-> gesture_score(count_2, len - half_length)]

aggregate(h, e, err, gs, len) ==
    LET total == Len(h) + Len(e) + Len(gs) + Len(err)
        half_length == round_half(len)
        count_1 == first_half(gs, half_length)
        count_2 == second_half(gs, half_length, len)
        fl == quality_flag(results_count(h, e, err, LowLightFound),
                           results_count(h, e, err, TooFar),
                           results_count(h, e, err, NoFaceFound), total)
    IN  [flag |-> fl,
         dt |-> IF fl \notin {1, 2, 3} THEN report(h, e, gs, count_1, count_2)
                ELSE EmptyDict,
         statement1 |-> gesture_score(count_1, half_length),
         statement2 |-> gesture_score(count_2, len - half_length)]

-----------------------------------------------------------------------------
(* feedback, lines 326-335: the Feedback row of the subject is fetched, or a *)
(* new one is made; every key of dt is set on it and it is saved.  A row is  *)
(* [itechnolabs_id, pk, data]; save gives a new row the next primary key.    *)
SubjectRows(table, id) == {r \in table : r.itechnolabs_id = id}

setattrs(data, d) ==
    [k \in DOMAIN data \cup DOMAIN d |-> IF k \in DOMAIN d THEN d[k] ELSE data[k]]

\* the save that never looks for the subject's record
feedback_always_creates(table, id, d) ==
    table \cup {[itechnolabs_id |-> id, pk |-> Cardinality(table) + 1,
                 data |-> setattrs(EmptyDict, d)]}

feedback(table, id, d) ==
    IF SubjectRows(table, id) # {}
    THEN LET queryset == CHOOSE r \in SubjectRows(table, id) : TRUE
         IN  (table \ {queryset})
                 \cup {[queryset EXCEPT !.data = setattrs(queryset.data, d)]}
    ELSE table \cup {[itechnolabs_id |-> id, pk |-> Cardinality(table) + 1,
                      data |-> setattrs(EmptyDict, d)]}

-----------------------------------------------------------------------------
(* The input: what the collaborators yield on one frame.                    *)
(*   read            "frame": cap.read() returns a frame; "raise": it raises *)
(*   resize          "raise": frame.mean() or cv2.resize raises              *)
(*   light           frame.mean()                                            *)
(*   hands           "hand", "none", or "raise" (cvtColor or process raises) *)
(*   face            "IndexError": headTracking.face_data(image) raises it   *)
(*   face_width, face_values    what face_data(image) returns                *)
(*   face_width_img  the width face_data(def_image) returns                  *)
(*   refresh         "IndexError": refresh(image) of the tracker raises it   *)
(*   vertical_ratio, horizontal_ratio   what refresh returns, times 100      *)
(*   is_right, is_left, is_center       the gaze queries of the tracker      *)
Good ==
    [read |-> "frame", resize |-> "ok", light |-> 98, hands |-> "hand",
     face |-> "ok", face_width |-> 43, face_width_img |-> 69, face_values |-> 66,
     refresh |-> "ok", vertical_ratio |-> 133, horizontal_ratio |-> 71,
     is_right |-> FALSE, is_left |-> FALSE, is_center |-> TRUE]

\* with face_width = 43 the distance is about face_width_img centimetres
Quiet == [Good EXCEPT !.hands = "none", !.face_width_img = 19]

SessionFrames ==
    { Good,
      [Good EXCEPT !.read = "raise"],
      Quiet,
      [Quiet EXCEPT !.face_values = 65],
      [Quiet EXCEPT !.face_values = 65, !.hands = "hand"],
      [Quiet EXCEPT !.face_width_img = 141],
      [Good EXCEPT !.face_width_img = 141],
      [Good EXCEPT !.face_width_img = 141, !.face_values = 65],
      [Quiet EXCEPT !.face = "IndexError"],
      [Good EXCEPT !.face_width = 0],
      [Good EXCEPT !.hands = "raise", !.face_width_img = 68, !.light = 97,
                   !.horizontal_ratio = 70],
      [Good EXCEPT !.resize = "raise"] }

FrameDomain ==
    [read : {"frame"}, resize : {"ok", "raise"}, light : {97, 98},
     hands : {"hand", "none"}, face : {"ok", "IndexError"},
     face_width : FaceWidths, face_width_img : RefWidths,
     face_values : {65, 66}, refresh : {"ok", "IndexError"},
     vertical_ratio : {133, 211},
     horizontal_ratio : {70, 71, 146},
     is_right : BOOLEAN, is_left : BOOLEAN, is_center : BOOLEAN]

\* frames that differ in the two head ratios only, around the four bounds
RatioFrames ==
    {[Good EXCEPT !.vertical_ratio = v, !.horizontal_ratio = h] :
        v \in (VerticalMin - RatioMargin)..(VerticalMax + RatioMargin),
        h \in (HorizontalMin - RatioMargin)..(HorizontalMax + RatioMargin)}

RECURSIVE SeqsUpTo(_, _)
SeqsUpTo(S, n) ==
    IF n = 0 THEN {<<>>}
    ELSE LET shorter == SeqsUpTo(S, n - 1)
         IN  shorter \cup {Append(v, x) : v \in {w \in shorter : Len(w) = n - 1},
                                          x \in S}

-----------------------------------------------------------------------------
(* State after lines 194-201 *)
\* the locals of head_and_eyes_analysis before its first statement
Locals ==
    /\ itechnolabs_id = default_id
    /\ pos = 0
    /\ frame = NoFrame
    /\ frame_light = <<>>
    /\ count = 1
    /\ head = <<>> /\ eyes = <<>> /\ errors = <<>> /\ gestures = <<>>
    /\ ret = NoRet
    /\ flag = 0 /\ dt = EmptyDict
    /\ statement1 = "" /\ statement2 = ""
    /\ pc = "read"
    /\ exc = ""

Start ==
    /\ Locals
    /\ FeedbackTable = {}
    /\ call = NoCall /\ result = NoResult
    /\ trackers = NoTracker /\ sessions = <<>>

Init ==
    /\ \/ /\ video \in SeqsUpTo(SessionFrames, MaxFrames)
          /\ length \in 0..MaxLength
       \/ /\ video \in {<<f>> : f \in FrameDomain \cup RatioFrames}
          /\ length = 1
    /\ Start

-----------------------------------------------------------------------------
(* The frame loop, lines 202-245 *)
Accumulators == <<head, eyes, errors, gestures>>
\* the state of the other entry points
Elsewhere == <<call, result, trackers, sessions>>
Outcome == <<flag, dt, statement1, statement2, FeedbackTable>>
Input == <<video, length, itechnolabs_id>>

\* lines 204-206: cap.read() returns a frame
ReadFrame ==
    /\ pc = "read"
    /\ pos < Len(video)
    /\ video[pos + 1].read = "frame"
    /\ frame' = video[pos + 1]
    /\ pos' = pos + 1
    /\ ret' = NoRet
    /\ pc' = "resize"
    /\ UNCHANGED Elsewhere
    /\ UNCHANGED <<Input, frame_light, count, Accumulators, Outcome, exc>>

\* lines 204-206: the stream has ended, frame is None
ReadEnd ==
    /\ pc = "read"
    /\ pos = Len(video)
    /\ pc' = "aggregate"
    /\ UNCHANGED Elsewhere
    /\ UNCHANGED <<Input, pos, frame, frame_light, count, Accumulators, ret,
                   Outcome, exc>>

\* lines 207-209: cap.read() raises
ReadRaise ==
    /\ pc = "read"
    /\ pos < Len(video)
    /\ video[pos + 1].read = "raise"
    /\ pc' = "aggregate"
    /\ UNCHANGED Elsewhere
    /\ UNCHANGED <<Input, pos, frame, frame_light, count, Accumulators, ret,
                   Outcome, exc>>

\* lines 211-217
Resize ==
    /\ pc = "resize"
    /\ frame_light' = IF frame.resize = "ok" THEN <<frame.light>> ELSE <<>>
    /\ pc' = "hands"
    /\ UNCHANGED Elsewhere
    /\ UNCHANGED <<Input, pos, frame, count, Accumulators, ret, Outcome, exc>>

\* lines 219-228 with count += 1 inside the try block
hands_step_count_in_try(gs, cnt, f) ==
    [gestures |-> IF f.hands = "hand" THEN Append(gs, cnt) ELSE gs,
     count |-> IF f.hands = "raise" THEN cnt ELSE cnt + 1]

\* lines 219-228 with the gesture recorded only when the face lookup works
hands_step_needs_face(gs, cnt, f) ==
    [gestures |-> IF f.hands = "hand" /\ f.face = "ok" THEN Append(gs, cnt) ELSE gs,
     count |-> cnt + 1]

\* lines 219-228
hands_step(gs, cnt, f) ==
    [gestures |-> IF f.hands = "hand" THEN Append(gs, cnt) ELSE gs,
     count |-> cnt + 1]

Hands ==
    /\ pc = "hands"
    /\ gestures' = hands_step(gestures, count, frame).gestures
    /\ count' = hands_step(gestures, count, frame).count
    /\ pc' = "eyes"
    /\ UNCHANGED Elsewhere
    /\ UNCHANGED <<Input, pos, frame, frame_light, head, eyes, errors, ret,
                   Outcome, exc>>

AppendIf(list, text) == IF text # "" THEN Append(list, text) ELSE list

\* lines 230-245 with No Face Found also appended when no head direction
\* came back
eyes_step_no_head_is_no_face(h, e, err, r) ==
    IF r.raised = ""
    THEN [head |-> AppendIf(h, r.text_head_analysis),
          eyes |-> AppendIf(e, r.text_eyes_movements),
          errors |-> AppendIf(AppendIf(AppendIf(err, r.low_light_text), r.text_yourfar),
                              IF r.text_head_analysis = "" THEN NoFaceFound ELSE ""),
          pc |-> "read", exc |-> ""]
    ELSE IF r.raised = "IndexError"
    THEN [head |-> h, eyes |-> e, errors |-> Append(err, NoFaceFound),
          pc |-> "read", exc |-> ""]
    ELSE [head |-> h, eyes |-> e, errors |-> err, pc |-> "raised",
          exc |-> r.raised]

\* lines 230-245 with the head direction kept only when an eye direction came
\* back with it
eyes_step_head_needs_eyes(h, e, err, r) ==
    IF r.raised = ""
    THEN [head |-> IF r.text_eyes_movements # "" THEN AppendIf(h, r.text_head_analysis)
                   ELSE h,
          eyes |-> AppendIf(e, r.text_eyes_movements),
          errors |-> AppendIf(AppendIf(err, r.low_light_text), r.text_yourfar),
          pc |-> "read", exc |-> ""]
    ELSE IF r.raised = "IndexError"
    THEN [head |-> h, eyes |-> e, errors |-> Append(err, NoFaceFound),
          pc |-> "read", exc |-> ""]
    ELSE [head |-> h, eyes |-> e, errors |-> err, pc |-> "raised",
          exc |-> r.raised]

\* lines 230-245 with except Exception in place of except IndexError
eyes_step_catches_all(h, e, err, r) ==
    IF r.raised = ""
    THEN [head |-> AppendIf(h, r.text_head_analysis),
          eyes |-> AppendIf(e, r.text_eyes_movements),
          errors |-> AppendIf(AppendIf(err, r.low_light_text), r.text_yourfar),
          pc |-> "read", exc |-> ""]
    ELSE [head |-> h, eyes |-> e, errors |-> Append(err, NoFaceFound),
          pc |-> "read", exc |-> ""]

\* lines 230-245: what the call of get_eyes_data with result r leaves in
\* errors, eyes, head, and where it goes
eyes_step(h, e, err, r) ==
    IF r.raised = ""
    THEN [head |-> AppendIf(h, r.text_head_analysis),
          eyes |-> AppendIf(e, r.text_eyes_movements),
          errors |-> AppendIf(AppendIf(err, r.low_light_text), r.text_yourfar),
          pc |-> "read", exc |-> ""]
    ELSE IF r.raised = "IndexError"
    THEN [head |-> h, eyes |-> e, errors |-> Append(err, NoFaceFound),
          pc |-> "read", exc |-> ""]
    ELSE [head |-> h, eyes |-> e, errors |-> err, pc |-> "raised",
          exc |-> r.raised]

Eyes ==
    /\ pc = "eyes"
    /\ ret' = get_eyes_data(frame, frame_light)
    /\ LET s == eyes_step(head, eyes, errors, ret')
       IN  /\ head' = s.head
           /\ eyes' = s.eyes
           /\ errors' = s.errors
           /\ pc' = s.pc
           /\ exc' = s.exc
    /\ UNCHANGED Elsewhere
    /\ UNCHANGED <<Input, pos, frame, frame_light, count, gestures, Outcome>>

\* the report is saved whatever the flag
saves_report_always(f) == TRUE

\* line 280
saves_report(f) == f \notin {1, 2, 3}

\* the calls of feedback so far
Calls == IF call.fn = "feedback" THEN call.n ELSE 0

\* lines 247-309, and line 313 when a flag is set
Aggregate ==
    /\ pc = "aggregate"
    /\ LET a == aggregate(head, eyes, errors, gestures, length)
       IN  /\ flag' = a.flag
           /\ dt' = a.dt
           /\ statement1' = a.statement1
           /\ statement2' = a.statement2
           /\ pc' = IF saves_report(a.flag) THEN "feedback" ELSE "done"
    /\ UNCHANGED Elsewhere
    /\ UNCHANGED <<Input, pos, frame, frame_light, count, Accumulators, ret,
                   FeedbackTable, exc>>

\* lines 311-313
Feedback ==
    /\ pc = "feedback"
    /\ FeedbackTable' = feedback(FeedbackTable, itechnolabs_id, dt)
    /\ call' = [fn |-> "feedback", itechnolabs_id |-> itechnolabs_id, dt |-> dt,
                n |-> Calls + 1]
    /\ result' = [returned |-> TRUE,
                  value |-> CHOOSE r \in SubjectRows(FeedbackTable', itechnolabs_id) :
                                TRUE]
    /\ pc' = "done"
    /\ UNCHANGED <<trackers, sessions>>
    /\ UNCHANGED <<Input, pos, frame, frame_light, count, Accumulators, ret,
                   flag, dt, statement1, statement2, exc>>

Next ==
    \/ ReadFrame
    \/ ReadEnd
    \/ ReadRaise
    \/ Resize
    \/ Hands
    \/ Eyes
    \/ Aggregate
    \/ Feedback

-----------------------------------------------------------------------------
(* Long sessions: the videos that show the split of the gesture list at    *)
(* round(length / 2) and the weighted composites.                           *)
HandOnly == [Quiet EXCEPT !.hands = "hand"]
SplitIndices == {50, 51, LongFrames - 1, LongFrames}

\* LongFrames frames, a hand on those of G and nothing else recorded
SplitVideo(G) == [k \in 1..LongFrames |-> IF k \in G THEN HandOnly ELSE Quiet]

\* frames with a head direction and an eye direction, then frames with the
\* head direction alone (brightness 97), all to the same side
Facing(side) ==
    [Good EXCEPT !.hands = "none",
                 !.horizontal_ratio = CASE side = "Left" -> HorizontalMin - 1
                                        [] side = "Right" -> HorizontalMax + 1
                                        [] OTHER -> HorizontalMin,
                 !.is_right = (side = "Right"),
                 !.is_left = (side = "Left"),
                 !.is_center = (side = "Center")]

CompositeVideo(side, both, head_only) ==
    [k \in 1..(both + head_only) |->
        IF k <= both THEN Facing(side) ELSE [Facing(side) EXCEPT !.light = 97]]

LongVideos ==
    {SplitVideo(G) : G \in SUBSET SplitIndices}
    \cup {CompositeVideo(side, both, head_only) :
              side \in {"Center", "Left", "Right"},
              both \in 0..MaxHeadEye, head_only \in 1..MaxHeadOnly}

LongInit ==
    /\ video \in LongVideos
    /\ length \in (IF Len(video) = LongFrames
                   THEN (LongFrames - 3)..LongFrames ELSE {Len(video)})
    /\ Start

LongNext ==
    \/ ReadFrame
    \/ ReadEnd
    \/ Resize
    \/ Hands
    \/ Eyes
    \/ Aggregate
    \/ Feedback

LongSpec == LongInit /\ [][LongNext]_vars

-----------------------------------------------------------------------------
(* gesture_score called on its own, lines 337-365 *)
MaxScore == 1601

Scores == 0..MaxScore
SampleSizes == {0, 500, SmallSample - 1, SmallSample, LargeSample, LargeSample + 1}

Session == <<Input, pos, frame, frame_light, count, Accumulators, ret,
             flag, dt, statement1, statement2, pc, exc>>

ScoreInit ==
    /\ video = <<>> /\ length = 0
    /\ Locals
    /\ FeedbackTable = {}
    /\ call \in {[fn |-> "gesture_score", score |-> c, n_samples |-> n] :
                     c \in Scores, n \in SampleSizes}
    /\ result = NoResult
    /\ trackers = NoTracker /\ sessions = <<>>

CallGestureScore ==
    /\ call.fn = "gesture_score"
    /\ result = NoResult
    /\ result' = [returned |-> TRUE,
                  value |-> gesture_score(call.score, call.n_samples)]
    /\ UNCHANGED <<Session, FeedbackTable, call, trackers, sessions>>

ScoreNext == CallGestureScore

ScoreSpec == ScoreInit /\ [][ScoreNext]_vars

-----------------------------------------------------------------------------
(* feedback called on its own, one call after the other, lines 315-335 *)
MaxCalls == 3

Subjects == {default_id, default_id + 1}
Reports ==
    {report(<<>>, <<>>, <<>>, 0, 0),
     report(<<"Center", "Center", "Upper">>, <<"Center">>, <<1, 2>>, 1, 1),
     [up |-> 3]}

FeedbackInit ==
    /\ video = <<>> /\ length = 0
    /\ Locals
    /\ FeedbackTable = {}
    /\ call = NoCall
    /\ result = NoResult
    /\ trackers = NoTracker /\ sessions = <<>>

\* call.before is the table the call found, call.again says that the call
\* before it had the same arguments
CallFeedback ==
    /\ call.fn \in {"none", "feedback"}
    /\ Calls < MaxCalls
    /\ \E id \in Subjects, d \in Reports :
          /\ FeedbackTable' = feedback(FeedbackTable, id, d)
          /\ call' = [fn |-> "feedback", itechnolabs_id |-> id, dt |-> d,
                      n |-> Calls + 1, before |-> FeedbackTable,
                      again |-> /\ call.fn = "feedback"
                                /\ call.itechnolabs_id = id
                                /\ call.dt = d]
          /\ result' = [returned |-> TRUE,
                        value |-> CHOOSE r \in SubjectRows(FeedbackTable', id) :
                                      TRUE]
    /\ UNCHANGED <<Session, trackers, sessions>>

FeedbackNext == CallFeedback

FeedbackSpec == FeedbackInit /\ [][FeedbackNext]_vars

-----------------------------------------------------------------------------
(* Two calls of feedback at the same time, lines 326-335. The lookup of     *)
(* lines 327-330 and the save of line 334 are two statements with nothing   *)
(* that holds the table between them. Whether the Feedback table has a      *)
(* unique constraint on itechnolabs_id is decided in module_name.models,    *)
(* which the file imports: both schemas are taken. Without the constraint  *)
(* the save of a new object inserts a row; with it the second insert for a  *)
(* subject raises IntegrityError, which feedback does not catch.            *)
SaveThreads == {1, 2}

\* pk 0 is the pk None of an object that was never saved
Unsaved(id) == [itechnolabs_id |-> id, pk |-> 0, data |-> EmptyDict]

\* lines 327-333: get or construct, then setattr for every key of dt
feedback_lookup(table, id, d) ==
    LET queryset == IF SubjectRows(table, id) # {}
                    THEN CHOOSE r \in SubjectRows(table, id) : TRUE
                    ELSE Unsaved(id)
    IN  [queryset EXCEPT !.data = setattrs(queryset.data, d)]

\* line 334: queryset.save() writes every field of the object, as a new row
\* when it has no pk
feedback_save(table, queryset, unique) ==
    IF queryset.pk # 0
    THEN [table |-> {r \in table : r.pk # queryset.pk} \cup {queryset},
          raised |-> ""]
    ELSE IF unique /\ SubjectRows(table, queryset.itechnolabs_id) # {}
    THEN [table |-> table, raised |-> "IntegrityError"]
    ELSE [table |-> table \cup {[queryset EXCEPT !.pk = Cardinality(table) + 1]},
          raised |-> ""]

Stored(id) == {[itechnolabs_id |-> id, pk |-> 1, data |-> setattrs(EmptyDict, [up |-> 3])]}

SaveInit ==
    /\ video = <<>> /\ length = 0
    /\ Locals
    /\ FeedbackTable \in {{}, Stored(default_id)}
    /\ \E u \in BOOLEAN :
          call = [fn |-> "concurrent feedback", unique |-> u,
                  before |-> FeedbackTable]
    /\ result = NoResult
    /\ trackers = NoTracker
    /\ sessions \in [SaveThreads -> [itechnolabs_id : Subjects, dt : Reports,
                                     pc : {"lookup"}, queryset : {Unsaved(0)}]]

SaveLookup(t) ==
    /\ sessions[t].pc = "lookup"
    /\ sessions' = [sessions EXCEPT
                       ![t].queryset = feedback_lookup(FeedbackTable,
                                                       sessions[t].itechnolabs_id,
                                                       sessions[t].dt),
                       ![t].pc = "save"]
    /\ UNCHANGED <<Session, FeedbackTable, call, result, trackers>>

SaveSave(t) ==
    /\ sessions[t].pc = "save"
    /\ LET s == feedback_save(FeedbackTable, sessions[t].queryset, call.unique)
       IN  /\ FeedbackTable' = s.table
           /\ sessions' = [sessions EXCEPT
                              ![t].pc = IF s.raised = "" THEN "done" ELSE "raised"]
    /\ UNCHANGED <<Session, call, result, trackers>>

SaveNext == \E t \in SaveThreads : SaveLookup(t) \/ SaveSave(t)

SaveSpec == SaveInit /\ [][SaveNext]_vars

-----------------------------------------------------------------------------
(* Two analyses at the same time. headTracking and headTrackingSelfie are  *)
(* module-level objects, lines 30-31: refresh(image) leaves the analysed    *)
(* frame in the tracker, and is_right(), is_left(), is_center() take no     *)
(* argument and answer from what the tracker holds, lines 161-186.          *)
MaxConcFrames == 1

Threads == {1, 2}

ConcFrames ==
    { Good,
      [Good EXCEPT !.is_right = TRUE, !.is_center = FALSE],
      [Good EXCEPT !.is_left = TRUE, !.is_center = FALSE, !.face_width_img = 68],
      [Good EXCEPT !.light = 97],
      [Good EXCEPT !.face_width_img = 141] }

ConcVideos == SeqsUpTo(ConcFrames, MaxConcFrames) \ {<<>>}

NoGaze == [is_right |-> FALSE, is_left |-> FALSE, is_center |-> FALSE]

NewSession(v) ==
    [video |-> v, pos |-> 1, pc |-> "refresh", seen |-> NoGaze,
     head |-> <<>>, eyes |-> <<>>, errors |-> <<>>, foreign |-> FALSE]

ConcInit ==
    /\ video = <<>> /\ length = 0
    /\ Locals
    /\ FeedbackTable = {}
    /\ call = NoCall /\ result = NoResult
    /\ trackers = NoTracker
    /\ sessions \in [Threads -> {NewSession(v) : v \in ConcVideos}]

Current(s) == sessions[s].video[sessions[s].pos]

\* lines 157-174: the tracker the distance of frame f selects, "" if none
TrackerAt(distance) ==
    IF selfie_regime(distance) THEN "headTrackingSelfie"
    ELSE IF fullbody_regime(distance) THEN "headTracking"
    ELSE ""

Regime(f) ==
    IF f.face = "IndexError" \/ f.face_width = 0 THEN ""
    ELSE TrackerAt(Measured[f.face_width_img][f.face_width])

\* the frame f with the answers the gaze queries gave
Seen(f, g) ==
    [f EXCEPT !.is_right = g.is_right, !.is_left = g.is_left,
              !.is_center = g.is_center]

\* lines 161 and 175: refresh(image), which is the last tracker call of the
\* frame unless valuePix > 97
RefreshOn(s, f, t) ==
    IF t = "" \/ f.refresh = "IndexError"
    THEN /\ sessions' = [sessions EXCEPT ![s].pc = "record"]
         /\ UNCHANGED trackers
    ELSE /\ trackers' = [trackers EXCEPT ![t] = [by |-> s, frame |-> f]]
         /\ sessions' = [sessions EXCEPT ![s].pc =
                            IF f.light > EyesLightMin THEN "is_right"
                            ELSE "record"]

TrackerRefresh(s) ==
    /\ sessions[s].pc = "refresh"
    /\ RefreshOn(s, Current(s), Regime(Current(s)))
    /\ UNCHANGED <<Session, FeedbackTable, call, result>>

\* one gaze query, lines 167-171 and 181-185: the answer comes from the frame
\* the tracker holds now; a true answer ends the elif chain
Answer(s, q, next, held) ==
    sessions' = [sessions EXCEPT
                   ![s].seen[q] = held.frame[q],
                   ![s].foreign = @ \/ held.by # s,
                   ![s].pc = IF held.frame[q] THEN "record" ELSE next]

Query(s, q, next) ==
    /\ sessions[s].pc = q
    /\ Answer(s, q, next, trackers[Regime(Current(s))])
    /\ UNCHANGED <<Session, FeedbackTable, call, result, trackers>>

IsRight(s) == Query(s, "is_right", "is_left")
IsLeft(s) == Query(s, "is_left", "is_center")
IsCenter(s) == Query(s, "is_center", "record")

\* lines 230-245: the return of get_eyes_data and the appends
Appended(s, a) ==
    sessions' = [sessions EXCEPT
                   ![s].head = a.head, ![s].eyes = a.eyes,
                   ![s].errors = a.errors, ![s].seen = NoGaze,
                   ![s].pos = IF @ < Len(sessions[s].video) THEN @ + 1 ELSE @,
                   ![s].pc = IF sessions[s].pos < Len(sessions[s].video)
                             THEN "refresh" ELSE "done"]

Record(s) ==
    /\ sessions[s].pc = "record"
    /\ Appended(s, eyes_step(sessions[s].head, sessions[s].eyes, sessions[s].errors,
                             get_eyes_data(Seen(Current(s), sessions[s].seen),
                                           <<Current(s).light>>)))
    /\ UNCHANGED <<Session, FeedbackTable, call, result, trackers>>

ConcRefresh == \E s \in Threads : TrackerRefresh(s)
ConcIsRight == \E s \in Threads : IsRight(s)
ConcIsLeft == \E s \in Threads : IsLeft(s)
ConcIsCenter == \E s \in Threads : IsCenter(s)
ConcRecord == \E s \in Threads : Record(s)

ConcNext == ConcRefresh \/ ConcIsRight \/ ConcIsLeft \/ ConcIsCenter \/ ConcRecord

ConcSpec == ConcInit /\ [][ConcNext]_vars

-----------------------------------------------------------------------------
(* graph_pie, lines 367-420. A size is a number or a non-finite value (nan, *)
(* inf); an optional argument is <<>> for None and <<v>> for the value v.   *)
(* render says which plotting call raises: "pie" line 398, "savefig" lines  *)
(* 411-413, "ok" none.                                                       *)
MaxSizes == 2

Number(v) == [finite |-> TRUE, value |-> v]
NonFinite == [finite |-> FALSE, value |-> 0]
isfinite(x) == x.finite
SizeValues == {Number(0), Number(1), NonFinite}

RECURSIVE np_sum(_)
np_sum(xs) == IF xs = <<>> THEN 0 ELSE xs[1].value + np_sum(Tail(xs))

\* the try block, lines 383-413: what it returns, or the exception it raises
graph_pie_body(labels, sizes, path, render) ==
    IF sizes = <<>> \/ \A i \in DOMAIN sizes[1] : sizes[1][i] = Number(0)
    THEN [raised |-> "", value |-> <<>>]
    ELSE LET finite == SelectSeq(sizes[1], isfinite)
         IN  IF Len(finite) = 0 THEN [raised |-> "", value |-> <<>>]
             ELSE IF labels = <<>> THEN [raised |-> "TypeError", value |-> <<>>]
             ELSE IF Len(finite) # Len(labels[1])
             THEN [raised |-> "", value |-> <<>>]
             ELSE IF render = "pie" THEN [raised |-> "ValueError", value |-> <<>>]
             ELSE IF np_sum(finite) = 0 THEN [raised |-> "", value |-> <<>>]
             ELSE IF render = "savefig"
             THEN [raised |-> "OSError", value |-> <<>>]
             ELSE [raised |-> "", value |-> <<path>>]

\* lines 382-420: except Exception sets path to None
graph_pie(labels, sizes, path, render) ==
    LET body == graph_pie_body(labels, sizes, path, render)
    IN  IF body.raised # "" THEN [raised |-> "", value |-> <<>>] ELSE body

GraphInit ==
    /\ video = <<>> /\ length = 0
    /\ Locals
    /\ FeedbackTable = {}
    /\ call \in [fn : {"graph_pie"},
                  labels : {<<>>} \cup {<<l>> : l \in SeqsUpTo({"label"}, MaxSizes)},
                  sizes : {<<>>} \cup {<<z>> : z \in SeqsUpTo(SizeValues, MaxSizes)},
                  path : {"pie.png"},
                  render : {"ok", "pie", "savefig"}]
    /\ result = NoResult
    /\ trackers = NoTracker /\ sessions = <<>>

CallGraphPie ==
    /\ call.fn = "graph_pie"
    /\ result = NoResult
    /\ LET r == graph_pie(call.labels, call.sizes, call.path, call.render)
       IN  result' = [returned |-> TRUE, raised |-> r.raised, value |-> r.value]
    /\ UNCHANGED <<Session, FeedbackTable, call, trackers, sessions>>

GraphNext == CallGraphPie

GraphSpec == GraphInit /\ [][GraphNext]_vars

-----------------------------------------------------------------------------
(* The distance estimate on its own, lines 153-158: focal_length of the     *)
(* reference width, then distance_finder of the frame's width.              *)
MaxWidth == 43

DistanceInit ==
    /\ video = <<>> /\ length = 0
    /\ Locals
    /\ FeedbackTable = {}
    /\ call \in [fn : {"distance_finder"}, face_width_img : 1..MaxWidth,
                  face_width : 1..MaxWidth]
    /\ result = NoResult
    /\ trackers = NoTracker /\ sessions = <<>>

CallDistanceFinder ==
    /\ call.fn = "distance_finder"
    /\ result = NoResult
    /\ LET focal_length_found ==
               focal_length(known_distance, known_width, call.face_width_img)
       IN  result' = [returned |-> TRUE,
                      value |-> distance_finder(focal_length_found, known_width,
                                                call.face_width)]
    /\ UNCHANGED <<Session, FeedbackTable, call, trackers, sessions>>

DistanceNext == CallDistanceFinder

DistanceSpec == DistanceInit /\ [][DistanceNext]_vars

Spec == Init /\ [][Next]_vars

\* the interpreter runs the analysis on: no step waits for anything
FairSpec == Spec /\ WF_vars(Next)

-----------------------------------------------------------------------------
(* Properties *)
Total == Len(head) + Len(eyes) + Len(gestures) + Len(errors)
Aggregated == pc \in {"feedback", "done"}
Returned == pc = "done"
\* get_eyes_data has been called on the current frame
Classified == ret # NoRet
ZeroReport ==
    [center |-> 0, up |-> 0, down |-> 0, left |-> 0, right |-> 0,
     total_gesture |-> 0, first_gesture |-> 0, second_gesture |-> 0]
GazeMethods == {"refresh", "is_right", "is_left", "is_center"}
GazeCalls(r) == {c \in r.calls : c[2] \in GazeMethods}
Last(list) == list[Len(list)]

\* C1: a returned pair has its flag in 0..3, and with flag 1, 2 or 3 the
\* report is the empty dict.
C1_AbortedReportIsEmpty ==
    Returned => /\ flag \in 0..3
                /\ flag \in {1, 2, 3} => dt = EmptyDict

\* a session with a recorded gesture that returned the TooFar flag
C1_Witness ==
    Returned /\ flag = 2 /\ gestures # <<>> /\ dt = EmptyDict

\* C2: the flag is 1, 2, 3 exactly when the count of LowLight, TooFar,
\* NoFaceFound is more than half of the number of all results; when none
\* is (a count of exactly half included) it is 0 and the report is built.
C2_FlagIffMajority ==
    Aggregated =>
        /\ flag = 1 <=> 2 * Count(errors, LowLightFound) > Total
        /\ flag = 2 <=> 2 * Count(errors, TooFar) > Total
        /\ flag = 3 <=> 2 * Count(errors, NoFaceFound) > Total
        /\ (\A x \in {LowLightFound, TooFar, NoFaceFound} :
                2 * Count(errors, x) <= Total)
           => flag = 0 /\ DOMAIN dt = DOMAIN ZeroReport

\* LowLight is exactly half of the results: no flag
C2_Witness ==
    /\ Returned /\ flag = 0 /\ Total > 0
    /\ 2 * Count(errors, LowLightFound) = Total
    /\ dt # EmptyDict

\* C4 as stated: an empty video returns ({}, 0).
C4_EmptyVideoReturnsEmptyDict ==
    (Returned /\ video = <<>>) => (dt = EmptyDict /\ flag = 0)

\* C4: for a frame source that yields no frame the analysis returns flag 0
\* and the report with every count 0, which it has saved for the subject.
C4_EmptyVideoReturnsZeroReport ==
    (Returned /\ pos = 0) =>
        /\ flag = 0 /\ dt = ZeroReport /\ exc = ""
        /\ \E r \in FeedbackTable :
               r.itechnolabs_id = itechnolabs_id /\ r.data = ZeroReport

C4_Witness ==
    Returned /\ video = <<>> /\ dt = ZeroReport /\ flag = 0

\* C5: with no result recorded at all no flag is set and the report is
\* built, with the composites, up, down and the gesture counts all 0.
C5_ZeroTotalTakesWeightedPath ==
    (Aggregated /\ Total = 0) =>
        /\ flag = 0
        /\ DOMAIN dt = DOMAIN ZeroReport
        /\ \A k \in DOMAIN dt : dt[k] = 0

\* frames were decoded and classified, and nothing was recorded
C5_Witness ==
    Returned /\ Total = 0 /\ pos > 0 /\ count = pos + 1 /\ dt = ZeroReport

\* C6: a frame whose measured face width is 0 computes no distance, invokes
\* no gaze collaborator, is recorded as No Face Found, and the loop goes on.
C6_ZeroWidthIsFaceNotFound ==
    (Classified /\ frame.face = "ok" /\ frame.face_width = 0) =>
        /\ <<"local", "distance_finder">> \notin ret.calls
        /\ GazeCalls(ret) = {}
        /\ pc # "raised"
        /\ errors # <<>> /\ Last(errors) = NoFaceFound

\* the first index of video at which cap.read() does not return a frame
FirstFailure ==
    CHOOSE i \in 1..(Len(video) + 1) :
        /\ i = Len(video) + 1 \/ video[i].read = "raise"
        /\ \A j \in 1..(i - 1) : video[j].read = "frame"

\* C7: the loop stops at the first decode failure, reads no later frame, and
\* the analysis goes on to the aggregation and returns a pair, not an error.
C7_DecodeFailureEndsInReport ==
    /\ pos < FirstFailure
    /\ pc \in {"aggregate", "feedback", "done"} => pos = FirstFailure - 1
    /\ pc # "raised"

\* C8: count is 1 plus the number of decoded frames that passed line 228,
\* whatever their hand and face analysis did; every gesture index is the
\* position of a decoded frame with a hand, and the list increases strictly.
C8_FrameIndex ==
    /\ count = 1 + (IF pc \in {"resize", "hands"} THEN pos - 1 ELSE pos)
    /\ \A i \in 1..Len(gestures) :
           /\ gestures[i] \in 1..pos
           /\ video[gestures[i]].hands = "hand"
           /\ i > 1 => gestures[i - 1] < gestures[i]
    /\ \A k \in 1..(count - 1) :
           video[k].hands = "hand" => \E i \in 1..Len(gestures) : gestures[i] = k

\* the first frame had no face, the second one a hand
C8_Witness ==
    /\ Returned /\ gestures = <<2>> /\ count = 3
    /\ video[1].face = "IndexError"

\* the estimated distance of a frame with a face width other than 0, against
\* a whole number
Estimated(f) == Measured[f.face_width_img][f.face_width]
DistanceOver(f, n) == Above(Estimated(f), n)
DistanceUnder(f, n) == Below(Estimated(f), n)
OnlyTracker(r, tracker) ==
    GazeCalls(r) # {} /\ \A c \in GazeCalls(r) : c[1] = tracker

\* C9: on a frame with a face width other than 0, a distance in (20, 69)
\* invokes the selfie tracker only, one in [69, 140] the full-body tracker
\* only, one above 140 gives TooFar and no tracker, one of at most 20 no
\* tracker and no TooFar.
C9_RegimeByDistance ==
    (Classified /\ frame.face = "ok" /\ frame.face_width # 0) =>
        /\ (DistanceOver(frame, mindistance_selfie)
              /\ DistanceUnder(frame, mindistance_fullbody))
           => OnlyTracker(ret, "headTrackingSelfie")
        /\ (~DistanceUnder(frame, mindistance_fullbody)
              /\ ~DistanceOver(frame, maxdistance_fullbody))
           => OnlyTracker(ret, "headTracking")
        /\ DistanceOver(frame, maxdistance_fullbody)
           => /\ GazeCalls(ret) = {}
              /\ ret.text_yourfar = TooFar
              /\ errors # <<>> /\ Last(errors) = TooFar
        /\ ~DistanceOver(frame, mindistance_selfie)
           => /\ GazeCalls(ret) = {}
              /\ ret.text_yourfar = ""
              /\ pos = 1 => Count(errors, TooFar) = 0
        /\ Cardinality({c[1] : c \in GazeCalls(ret)}) <= 1

\* a distance of exactly 69 is classified by the full-body tracker
C9_Witness ==
    /\ Classified /\ frame.face = "ok" /\ frame.face_width # 0
    /\ known_distance * frame.face_width_img = mindistance_fullbody * frame.face_width
    /\ <<"headTracking", "refresh">> \in ret.calls
    /\ <<"headTrackingSelfie", "refresh">> \notin ret.calls

\* the frame's ratios went through head_movements
HeadClassified ==
    Classified /\ ret.raised \in {"", "TypeError"} /\ GazeCalls(ret) # {}

\* C10: the direction is Center, Upper, Down for a horizontal ratio in
\* [0.71, 1.45] and a vertical ratio in [1.33, 2.10], below, above; Left for
\* a horizontal ratio below 0.71, Right above 1.45; whatever else the frame
\* holds.
C10_HeadTable ==
    HeadClassified =>
        LET v == frame.vertical_ratio
            h == frame.horizontal_ratio
            d == ret.text_head_analysis
        IN  /\ (71 <= h /\ h <= 145 /\ 133 <= v /\ v <= 210) => d = "Center"
            /\ (71 <= h /\ h <= 145 /\ v < 133) => d = "Upper"
            /\ (71 <= h /\ h <= 145 /\ v > 210) => d = "Down"
            /\ h < 71 => d = "Left"
            /\ h > 145 => d = "Right"
            /\ ret.raised = "" => (head # <<>> /\ Last(head) = d)

\* both ratios on a bound of the Center box
C10_Witness ==
    /\ HeadClassified
    /\ frame.horizontal_ratio = 71 /\ frame.vertical_ratio = 210
    /\ ret.text_head_analysis = "Center"
    /\ head = <<"Center">>

\* a regime was selected for the frame: its distance is in (20, 140]
RegimeSelected(f) ==
    /\ f.face = "ok" /\ f.face_width # 0
    /\ DistanceOver(f, mindistance_selfie)
    /\ ~DistanceOver(f, maxdistance_fullbody)

\* C11: a frame records an eye direction only with brightness above 97 and a
\* regime selected, and then the first true of looking right, left, center;
\* with brightness at most 97, no regime, or all three false it records none.
C11_EyesGate ==
    (Classified /\ ret.raised = "") =>
        LET gate == /\ RegimeSelected(frame)
                    /\ frame.resize = "ok" /\ frame.light > 97
            expected == CASE gate /\ frame.is_right -> "Right"
                          [] gate /\ ~frame.is_right /\ frame.is_left -> "Left"
                          [] gate /\ ~frame.is_right /\ ~frame.is_left
                                  /\ frame.is_center -> "Center"
                          [] OTHER -> ""
        IN  /\ ret.text_eyes_movements = expected
            /\ expected # "" => (eyes # <<>> /\ Last(eyes) = expected)
            /\ (expected = "" /\ pos = 1) => eyes = <<>>

\* looking left and looking center both true: Left is recorded
C11_Witness ==
    /\ Classified /\ ret.raised = "" /\ RegimeSelected(frame)
    /\ frame.light = 98 /\ ~frame.is_right /\ frame.is_left /\ frame.is_center
    /\ eyes = <<"Left">>

\* C12: the index of a decoded frame is in the gesture list exactly when the
\* hand detector reported a hand on it, whatever its face analysis did.
C12_GestureIffHand ==
    \A k \in 1..(count - 1) :
        (\E i \in 1..Len(gestures) : gestures[i] = k)
            <=> /\ video[k].read = "frame"
                /\ video[k].hands = "hand"

\* a frame with a hand whose face lookup failed
C12_Witness ==
    /\ pos = 1 /\ frame.face = "IndexError" /\ frame.hands = "hand"
    /\ gestures = <<1>> /\ errors = <<NoFaceFound>>

NearestHalf(n) ==
    CHOOSE h \in 0..n : /\ 2 * h - n \in {-1, 0, 1}
                        /\ 2 * h # n => h % 2 = 0

GesturesWhere(P(_)) == Cardinality({i \in 1..Len(gestures) : P(gestures[i])})

\* C14: with half = round(length / 2), a half going to the even neighbour
\* (101 gives 50), first_gesture counts the gestures at an index <= half,
\* second_gesture those with half < index < length; none is in both, and
\* one at index length or beyond is in neither.
C14_HalfSplit ==
    (Aggregated /\ flag = 0) =>
        LET half == NearestHalf(length)
            InFirst(g) == g <= half
            InSecond(g) == half < g /\ g < length
            InEither(g) == InFirst(g) \/ InSecond(g)
            Beyond(g) == g >= length
        IN  /\ length = 101 => half = 50
            /\ dt.first_gesture = GesturesWhere(InFirst)
            /\ dt.second_gesture = GesturesWhere(InSecond)
            /\ dt.first_gesture + dt.second_gesture = GesturesWhere(InEither)
            /\ dt.first_gesture + dt.second_gesture + GesturesWhere(Beyond)
                   = Len(gestures)

\* 101 frames reported, gestures at 50, 51 and 101
C14_Witness ==
    /\ Returned /\ length = 101 /\ gestures = <<50, 51, 101>>
    /\ dt.first_gesture = 1 /\ dt.second_gesture = 1 /\ dt.total_gesture = 3

\* the whole number nearest to x / 100, the even one of two
Nearest(x) ==
    LET q == x \div 100
        r == x % 100
    IN  IF r < 50 THEN q
        ELSE IF r > 50 THEN q + 1
        ELSE IF q % 2 = 0 THEN q ELSE q + 1

Composite(side) ==
    Nearest(Count(head, side) * ratioX_pct) + Nearest(Count(eyes, side) * ratioY_pct)

\* C17: in a report, center, left and right are round(head count * 0.95)
\* + round(eye count * 0.05), each product rounded to the nearest whole
\* number; 10 head and 4 eye results to the center give 10.
C17_CompositeRoundsToNearest ==
    (Aggregated /\ flag = 0) =>
        /\ dt.center = Composite("Center")
        /\ dt.left = Composite("Left")
        /\ dt.right = Composite("Right")
        /\ (Count(head, "Center") = 10 /\ Count(eyes, "Center") = 4)
           => dt.center = 10

\* the statement the table of the claim gives a count under buckets b
Statement(c, b) ==
    IF c = 0 THEN NoGestures
    ELSE IF c \in 1..b[2] THEN GoodEffort
    ELSE IF c \in (b[2] + 1)..b[3] THEN Awesome
    ELSE IF c \in (b[3] + 1)..b[4] THEN Phew
    ELSE Ouch

Buckets(n) ==
    IF n < 750 THEN <<0, 100, 200, 300>>
    ELSE IF n <= 1250 THEN <<0, 200, 400, 600>>
    ELSE <<0, 400, 800, 1600>>

Scored == call.fn = "gesture_score" /\ result.returned

\* C15: gesture_score(count, n_samples) picks the buckets [0,100,200,300]
\* under 750 samples, [0,200,400,600] from 750 to 1250 and [0,400,800,1600]
\* above, and returns 'no gestures' for 0, 'good effort' for 1..b1, 'awesome'
\* for b1+1..b2, 'phew' for b2+1..b3 and 'ouch' above b3, the boundary values
\* falling in the lower bucket.
C15_ScoreTable ==
    Scored =>
        /\ result.value = Statement(call.score, Buckets(call.n_samples))
        /\ (call.n_samples = 749 /\ call.score \in {100, 200, 300})
           => result.value = Statement(call.score - 1, Buckets(749))
        /\ (call.n_samples \in {750, 1250} /\ call.score \in {200, 400, 600})
           => result.value = Statement(call.score - 1, Buckets(750))
        /\ (call.n_samples = 1251 /\ call.score \in {400, 800, 1600})
           => result.value = Statement(call.score - 1, Buckets(1251))

\* 400 gestures in 750 samples are the top of 'awesome'
C15_Witness ==
    /\ Scored /\ call.score = 400 /\ call.n_samples = 750
    /\ result.value = Awesome

\* C16 as stated: gesture_score(150, 500) returns the 'good effort' statement.
C16_GoodEffortAt150 ==
    (Scored /\ call.score = 150 /\ call.n_samples = 500)
        => result.value = GoodEffort

\* C16: gesture_score(150, 500) returns the 'awesome' statement, 150 lying
\* in 101..200 of the buckets [0,100,200,300].
C16_AwesomeAt150 ==
    (Scored /\ call.score = 150 /\ call.n_samples = 500)
        => result.value = Awesome

C16_Witness ==
    /\ Scored /\ call.score = 150 /\ call.n_samples = 500
    /\ result.value = Awesome /\ result.value # GoodEffort

\* the entries of a report beside its eight counts
Statements == DOMAIN dt \ DOMAIN ZeroReport

\* C18: the report of a session that is not aborted contains two gesture-usage
\* statements, gesture_score of the first-half count over the frames of the
\* first half and gesture_score of the second-half count over the frames of
\* the second half.
C18_ReportHasStatements ==
    (Returned /\ flag = 0) =>
        /\ statement1 = gesture_score(dt.first_gesture, round_half(length))
        /\ statement2 = gesture_score(dt.second_gesture,
                                      length - round_half(length))
        /\ \E k1, k2 \in Statements :
               k1 # k2 /\ dt[k1] = statement1 /\ dt[k2] = statement2

Saved == call.fn = "feedback" /\ result.returned

\* C19: after any sequence of sequential feedback(subject, dt) calls there is
\* at most one stored Feedback record per subject, its fields equal those of
\* the last dt written for the subject, and saving the same dt twice leaves
\* the store as after the first save.
C19_SaveIsUpsert ==
    /\ \A id \in Subjects : Cardinality(SubjectRows(FeedbackTable, id)) <= 1
    /\ Saved =>
          /\ \E r \in SubjectRows(FeedbackTable, call.itechnolabs_id) :
                /\ r = result.value
                /\ \A k \in DOMAIN call.dt : r.data[k] = call.dt[k]
          /\ \A r \in FeedbackTable \ SubjectRows(FeedbackTable, call.itechnolabs_id) :
                r \in call.before
          /\ call.again => FeedbackTable = call.before

\* the third call repeats the second, on a subject saved before with another
\* report
C19_Witness ==
    /\ Saved /\ call.n = 3 /\ call.again
    /\ call.dt # ZeroReport
    /\ \E r \in call.before : r.itechnolabs_id = call.itechnolabs_id
    /\ Cardinality(FeedbackTable) = 1
    /\ FeedbackTable = call.before

\* what head_and_eyes_analysis records on video v when no other analysis runs
RECURSIVE Alone(_)
Alone(v) ==
    IF v = <<>> THEN [head |-> <<>>, eyes |-> <<>>, errors |-> <<>>]
    ELSE LET a == Alone(SubSeq(v, 1, Len(v) - 1))
             f == v[Len(v)]
             s == eyes_step(a.head, a.eyes, a.errors, get_eyes_data(f, <<f.light>>))
         IN  [head |-> s.head, eyes |-> s.eyes, errors |-> s.errors]

Finished(s) == s \in DOMAIN sessions /\ sessions[s].pc = "done"

\* C20: when two head_and_eyes_analysis sessions run at the same time with
\* their per-frame steps interleaved, each records the head and eye
\* directions it records when it runs alone, and no state written while
\* processing one session's frame is read while classifying a frame of the
\* other.
C20_SessionsIndependent ==
    \A s \in Threads :
        /\ Finished(s) =>
              /\ sessions[s].head = Alone(sessions[s].video).head
              /\ sessions[s].eyes = Alone(sessions[s].video).eyes
              /\ sessions[s].errors = Alone(sessions[s].video).errors
        /\ s \in DOMAIN sessions => ~sessions[s].foreign

Drawn == call.fn = "graph_pie" /\ result.returned

\* sizes given, as a list
GivenSizes == IF call.sizes = <<>> THEN <<>> ELSE call.sizes[1]

\* C21: graph_pie never propagates an exception: it returns the output path
\* or None, and it returns None whenever sizes is None, empty, all zero, has
\* no finite entry, sums to zero, differs in length from labels, contains a
\* non-finite value, or the rendering step raises.
C21_GraphPieFailsSoft ==
    Drawn =>
        /\ result.raised = ""
        /\ result.value \in {<<>>, <<call.path>>}
        /\ ( \/ call.sizes = <<>>
             \/ GivenSizes = <<>>
             \/ \A i \in DOMAIN GivenSizes : GivenSizes[i] = Number(0)
             \/ \A i \in DOMAIN GivenSizes : ~isfinite(GivenSizes[i])
             \/ np_sum(SelectSeq(GivenSizes, isfinite)) = 0
             \/ call.labels = <<>>
             \/ Len(GivenSizes) # Len(call.labels[1])
             \/ \E i \in DOMAIN GivenSizes : ~isfinite(GivenSizes[i])
             \/ call.render # "ok" )
           => result.value = <<>>

Estimate == call.fn = "distance_finder" /\ result.returned

\* C22: for all positive W_ref and W_frame,
\* distance_finder(focal_length(43, 12.3, W_ref), 12.3, W_frame) equals
\* 43 * W_ref / W_frame: the real face width cancels.
C22_WidthCancels ==
    Estimate =>
        result.value = float_div(float(known_distance * call.face_width_img),
                                 float(call.face_width))

\* the face or gaze lookup of frame f raises the lookup failure
LookupFailed(f) ==
    \/ f.face = "IndexError"
    \/ /\ f.face_width # 0 /\ RegimeSelected(f)
       /\ f.refresh = "IndexError"

\* the frames get_eyes_data has been called on
ClassifiedFrames == 1..(IF Classified THEN pos ELSE pos - 1)

\* C23: No Face Found is recorded for a frame exactly when its face or gaze
\* lookup raised the lookup failure; such a frame adds one No Face Found and
\* no head direction, eye direction, Low Light Found or You Are Too Far, and
\* the loop goes on.
C23_NoFaceIffLookupFailed ==
    /\ Count(errors, NoFaceFound)
           = Cardinality({k \in ClassifiedFrames : LookupFailed(video[k])})
    /\ (Classified /\ LookupFailed(frame)) =>
           /\ ret.raised = "IndexError"
           /\ pc # "raised" /\ exc = ""
           /\ Last(errors) = NoFaceFound
           /\ pos = 1 => (head = <<>> /\ eyes = <<>> /\ errors = <<NoFaceFound>>)
    /\ (Classified /\ ret.raised = "IndexError") => LookupFailed(frame)

\* the face lookup of the first frame fails: one No Face Found, and the
\* second frame is read and classified
C23_Witness ==
    /\ pos = 2 /\ Classified /\ ret.raised = ""
    /\ video[1].face = "IndexError"
    /\ errors = <<NoFaceFound>> /\ head = <<"Center">>

\* C24: in a session feedback is called exactly once, after every frame has
\* been classified and with the report that is returned, when the flag is 0;
\* it is never called with a flag of 1, 2 or 3 nor before the frame loop has
\* ended.
C24_FeedbackOnce ==
    /\ Calls <= 1
    /\ Calls = 1 =>
          /\ Returned /\ flag = 0
          /\ call.dt = dt /\ call.itechnolabs_id = itechnolabs_id
          /\ FeedbackTable = {[itechnolabs_id |-> itechnolabs_id, pk |-> 1,
                               data |-> dt]}
          /\ \/ pos = Len(video)
             \/ video[pos + 1].read = "raise"
          /\ pos > 0 => Classified
    /\ (Returned /\ flag = 0) => Calls = 1
    /\ (Returned /\ flag \in {1, 2, 3}) => (Calls = 0 /\ FeedbackTable = {})
    /\ ~Returned => (Calls = 0 /\ FeedbackTable = {})

\* two frames classified, then the report saved once
C24_Witness ==
    /\ Returned /\ flag = 0 /\ pos = 2 /\ head = <<"Center", "Center">>
    /\ Calls = 1 /\ call.dt = dt /\ dt.center = 1

\* the classified frames without a lookup failure whose brightness, as
\* face_data measures it, is at most 65
DarkFrames ==
    {k \in ClassifiedFrames :
        ~LookupFailed(video[k]) /\ video[k].face_values <= LowLightMax}

\* C25: for every frame whose face lookup succeeds, Low Light Found is
\* recorded exactly when the brightness of the frame is at most 65, whatever
\* the distance and the regime.
C25_LowLightIffDark == Count(errors, LowLightFound) = Cardinality(DarkFrames)

Flags == <<LowLightFound, TooFar, NoFaceFound>>
Majority(x) == 2 * Count(errors, x) > Total

\* the flag three plain ifs leave when the tests are made in the order given,
\* order[i] being the index in Flags of the i-th test: the last true one
FlagInOrder(order) ==
    IF Majority(Flags[order[3]]) THEN order[3]
    ELSE IF Majority(Flags[order[2]]) THEN order[2]
    ELSE IF Majority(Flags[order[1]]) THEN order[1]
    ELSE 0

Orders == {o \in [1..3 -> 1..3] : \A i, j \in 1..3 : o[i] = o[j] => i = j}

\* C26: at the aggregation at most one of the counts of Low Light Found, You
\* Are Too Far and No Face Found is above half of the total of results, all
\* three being counted in it; the flag tests exclude one another and the flag
\* is the same in whatever order they are made.
C26_OneMajority ==
    Aggregated =>
        /\ Cardinality({i \in 1..3 : Majority(Flags[i])}) <= 1
        /\ \A o \in Orders : flag = FlagInOrder(o)

\* two flags of different kinds and nothing else: each is half, none above
C26_Witness ==
    /\ Returned /\ Total = 2
    /\ Count(errors, LowLightFound) = 1 /\ Count(errors, NoFaceFound) = 1
    /\ flag = 0

\* the gestures at a frame index not below the frame count reported
BeyondLength == {i \in 1..Len(gestures) : gestures[i] >= length}

\* C27: in a session that is not aborted first_gesture + second_gesture is at
\* most total_gesture, equal exactly when no gesture has a frame index at or
\* above the frame count the source reported; the gestures at such indices
\* are in total_gesture and in neither half.
C27_HalvesWithinTotal ==
    (Aggregated /\ flag = 0) =>
        /\ dt.total_gesture = Len(gestures)
        /\ dt.first_gesture + dt.second_gesture <= dt.total_gesture
        /\ dt.first_gesture + dt.second_gesture = dt.total_gesture
               <=> BeyondLength = {}
        /\ dt.total_gesture - (dt.first_gesture + dt.second_gesture)
               = Cardinality(BeyondLength)
        /\ length \in {0, 1} =>
               (dt.first_gesture = 0 /\ dt.second_gesture = 0)

\* one frame reported, two decoded, a hand on both: no gesture in a half
C27_Witness ==
    /\ Returned /\ flag = 0 /\ length = 1 /\ pos = 2
    /\ gestures = <<1, 2>>
    /\ dt.total_gesture = 2 /\ dt.first_gesture = 0 /\ dt.second_gesture = 0

\* the frames in which a regime was selected, the head ratios were obtained
\* and the classification returned
HeadFrames ==
    {k \in ClassifiedFrames :
        /\ RegimeSelected(video[k])
        /\ video[k].refresh = "ok"
        /\ video[k].resize = "ok"}

SavesOver == \A t \in SaveThreads : sessions[t].pc \in {"done", "raised"}

\* C29: two calls of feedback for one subject that has no Feedback row, with
\* their lookups and saves interleaved, leave at most one Feedback row for
\* the subject.
C29_OneRecordAfterRace ==
    (/\ sessions[1].itechnolabs_id = sessions[2].itechnolabs_id
     /\ SubjectRows(call.before, sessions[1].itechnolabs_id) = {}
     /\ SavesOver)
        => Cardinality(SubjectRows(FeedbackTable, sessions[1].itechnolabs_id)) <= 1

\* C30: no frame records both Low Light Found and an eye direction, the test
\* of line 150 and the gate of lines 166/180 reading one brightness value.
C30_NoLowLightWithEyes ==
    (Classified /\ ret.raised = "") =>
        ~(ret.low_light_text # "" /\ ret.text_eyes_movements # "")

====
